---------------------------- MODULE Spec2Model ----------------------------
(***************************************************************************)
(* A model of go/types/set.go of noms: the immutable, content-addressed    *)
(* ordered Set, its construction (NewSet, NewStreamingSet), its queries    *)
(* (Len, Empty, First, At, Has, IterAll), its three diff entry points and  *)
(* its lazily memoized hash.                                               *)
(*                                                                         *)
(* The sequence chunker, the cursor and the diff algorithms live in other  *)
(* files of the repository; they are modelled here from the design text    *)
(* (sections 4.1, 4.2 and 4.6).                                            *)
(***************************************************************************)
EXTENDS Integers, Sequences, FiniteSets, TLC

\* ------------------------------------------------------------------ bounds
\* Values are the integers 0..MaxVal, ordered by <.
MaxVal == 4
\* Longest argument list of NewSet / longest stream fed to NewStreamingSet.
MaxLen == 3
\* Largest value and largest set of the two sets that are diffed.
DiffMaxVal == 3
\* Capacity of the caller's changes channel.
ChangesCap == 1
\* Capacity of the caller's input channel of NewStreamingSet.
ValsCap == 1
\* Largest index handed to At beyond the last valid one.
MaxIdxOver == 1
\* Number of goroutines that call Hash() on the same Set.
NCallers == 2

\* ------------------------------------------------------------------ values
\* Go's nil Value (and the zero orderedKey, emptyKey).
Nil == -1
Values == 0..MaxVal

\* Value.Less and Value.Equals of the stored values (a total order).
Less(a, b) == a < b
Equals(a, b) == a = b

\* All sequences over S of length at most n.
SeqsUpTo(S, n) == UNION {[1..k -> S] : k \in 0..n}

\* ------------------------------------------------------------ buildSetData
RECURSIVE insertStable(_, _)
insertStable(sorted, v) ==
    IF sorted = <<>> THEN <<v>>
    ELSE IF Less(v, Head(sorted)) THEN <<v>> \o sorted
    ELSE <<Head(sorted)>> \o insertStable(Tail(sorted), v)

\* sort.Stable(values): equal elements keep their order.
RECURSIVE sortStable(_)
sortStable(values) ==
    IF values = <<>> THEN <<>>
    ELSE insertStable(sortStable(SubSeq(values, 1, Len(values) - 1)),
                      values[Len(values)])

\* The loop of buildSetData: i is the 1-based index of the next element.
RECURSIVE uniqueLoop(_, _, _, _)
uniqueLoop(values, i, last, uniqueSorted) ==
    IF i > Len(values) THEN Append(uniqueSorted, last)
    ELSE LET v == values[i]
         IN  uniqueLoop(values, i + 1, v,
                        IF ~Equals(v, last) THEN Append(uniqueSorted, last)
                        ELSE uniqueSorted)

\* A plausible slip: the final append of |last| is forgotten.
buildSetDataDropLast(values) ==
    IF Len(values) = 0 THEN <<>>
    ELSE LET sorted == sortStable(values)
             all == uniqueLoop(sorted, 2, sorted[1], <<>>)
         IN  SubSeq(all, 1, Len(all) - 1)

buildSetData(values) ==
    IF Len(values) = 0 THEN <<>>
    ELSE LET sorted == sortStable(values)
         IN  uniqueLoop(sorted, 2, sorted[1], <<>>)

\* ------------------------------------------------------- sequences, hashes
\* A leaf sequence holds values; a meta sequence of level L > 0 holds
\* metaTuples [ref, child, key, count], one per child.
leafSeq(vals) == [level |-> 0, items |-> vals]
metaSeq(level, tuples) == [level |-> level, items |-> tuples]
isLeaf(seq) == seq.level = 0
seqLen(seq) == Len(seq.items)

RECURSIVE sumCounts(_)
sumCounts(tuples) ==
    IF tuples = <<>> THEN 0 ELSE Head(tuples).count + sumCounts(Tail(tuples))

numLeaves(seq) == IF isLeaf(seq) THEN Len(seq.items) ELSE sumCounts(seq.items)

RECURSIVE encodeTuples(_)
encodeTuples(tuples) ==
    IF tuples = <<>> THEN <<>>
    ELSE Head(tuples).ref \o <<Head(tuples).key, Head(tuples).count>>
         \o encodeTuples(Tail(tuples))

\* The canonical encoding of a sequence: its level, its length, then its
\* values (a leaf) or its children's references, keys and counts (a meta
\* sequence). A child's reference is the child's own encoding, so that the
\* encoding stands for the (collision-free) content hash of the chunk.
Encode(seq) ==
    <<seq.level, Len(seq.items)>>
    \o (IF isLeaf(seq) THEN seq.items ELSE encodeTuples(seq.items))

\* hash.Hash is several machine words wide; the model keeps two halves.
EmptyHash == [lo |-> <<>>, hi |-> <<>>]
IsEmpty(h) == h.lo = <<>> /\ h.hi = <<>>

\* getHash(s): the content hash of the set's root sequence.
getHash(s) == [lo |-> <<0>> \o Encode(s.seq), hi |-> <<1>> \o Encode(s.seq)]

\* type Set struct { seq; h } and newSet: the hash cell starts empty.
newSet(seq) == [seq |-> seq, h |-> EmptyHash]


\* ------------------------------------------------------------ the chunker
\* The boundary function: a fixed, deterministic predicate of the item that
\* was just appended. Level 0 closes a chunk after every value v with
\* v % ChunkMod = ChunkMod - 1; level L closes after a child whose key k has
\* k % ChunkMod^(L+1) = ChunkMod^(L+1) - 1, so that higher levels close less
\* often.
ChunkMod == 2

RECURSIVE pow(_, _)
pow(b, e) == IF e = 0 THEN 1 ELSE b * pow(b, e - 1)

itemKey(level, item) == IF level = 0 THEN item ELSE item.key

isBoundary(level, item) ==
    LET m == pow(ChunkMod, level + 1)
    IN  itemKey(level, item) % m = m - 1

\* makeSetLeafChunkFn with the ordering check left out.
makeSetLeafChunkNoCheck(level, items) ==
    [ok    |-> level = 0,
     seq   |-> leafSeq(items),
     key   |-> IF Len(items) > 0 THEN items[Len(items)] ELSE Nil,
     count |-> Len(items)]

\* makeSetLeafChunkFn: panics (ok = FALSE) unless level = 0 and every value
\* is Less than the next one of the same chunk; lastValue starts at nil for
\* every chunk. Returns the leaf, its key (the last value) and its length.
makeSetLeafChunk(level, items) ==
    [ok    |-> /\ level = 0
               /\ \A i \in 1..Len(items) :
                     i = 1 \/ Less(items[i - 1], items[i]),
     seq   |-> leafSeq(items),
     key   |-> IF Len(items) > 0 THEN items[Len(items)] ELSE Nil,
     count |-> Len(items)]

\* newOrderedMetaSequenceChunkFn: a meta chunk of the given level over the
\* child references; the children's keys must be strictly increasing.
makeMetaChunk(level, tuples) ==
    [ok    |-> \A i \in 1..Len(tuples) :
                  i = 1 \/ Less(tuples[i - 1].key, tuples[i].key),
     seq   |-> metaSeq(level, tuples),
     key   |-> IF Len(tuples) > 0 THEN tuples[Len(tuples)].key ELSE Nil,
     count |-> sumCounts(tuples)]

makeChunk(level, items) ==
    IF level = 0 THEN makeSetLeafChunk(level, items)
    ELSE makeMetaChunk(level, items)

\* The reference to a finished chunk that is fed to the level above.
metaTupleOf(c) ==
    [ref |-> Encode(c.seq), child |-> c.seq, key |-> c.key, count |-> c.count]

\* newEmptySetSequenceChunker: one open (empty) buffer at level 0 and no
\* parent. bufs[L + 1] is the open chunk of level L; panic records that a
\* chunk function failed its check.
newEmptySetSequenceChunker == [bufs |-> << <<>> >>, panic |-> FALSE]

\* The value of F at a and b, with a and b evaluated once each (TLC
\* evaluates an operator's argument anew at every use of the parameter).
Bind2(F(_, _), a, b) == CHOOSE r \in {F(x, y) : x \in {a}, y \in {b}} : TRUE

RECURSIVE chunkerAppend(_, _, _)
RECURSIVE handleChunkBoundary(_, _)

\* Append an item to the open chunk of |level|; close it on a boundary.
chunkerAppend(sc, level, item) ==
    LET append(s, it) ==
            LET bufs1 == IF level + 1 > Len(s.bufs) THEN Append(s.bufs, <<it>>)
                         ELSE [s.bufs EXCEPT ![level + 1] = Append(@, it)]
                sc1 == [s EXCEPT !.bufs = bufs1]
            IN  IF isBoundary(level, it) THEN handleChunkBoundary(sc1, level)
                ELSE sc1
    IN  Bind2(append, sc, item)

\* Freeze the open chunk of |level| and feed its reference to the parent.
handleChunkBoundary(sc, level) ==
    LET close(s, c) ==
            chunkerAppend([bufs  |-> [s.bufs EXCEPT ![level + 1] = <<>>],
                           panic |-> s.panic \/ ~c.ok],
                          level + 1, metaTupleOf(c))
    IN  Bind2(close, sc, makeChunk(level, sc.bufs[level + 1]))

\* Whether any level from |level| upwards holds an item.
anyPending(sc, level) ==
    \E l \in level..(Len(sc.bufs) - 1) : Len(sc.bufs[l + 1]) > 0

\* A root with a single child is not canonical: walk down to the first
\* sequence that is a leaf or has more than one item.
RECURSIVE canonicalRoot(_)
canonicalRoot(mt) ==
    LET child == mt.child
    IN  IF isLeaf(child) \/ seqLen(child) > 1 THEN child
        ELSE canonicalRoot(child.items[1])

\* End of stream: force-close every open level bottom-up and return the
\* root (an empty leaf for an empty stream).
RECURSIVE chunkerDone(_, _)
chunkerDone(sc, level) ==
    LET done(s, cur) ==
            IF anyPending(s, level + 1)
            THEN chunkerDone(IF Len(cur) > 0 THEN handleChunkBoundary(s, level)
                             ELSE s,
                             level + 1)
            ELSE IF level = 0 \/ Len(cur) > 1
            THEN LET c == makeChunk(level, cur)
                 IN  [seq |-> c.seq, panic |-> s.panic \/ ~c.ok]
            ELSE IF Len(cur) = 1
            THEN [seq |-> canonicalRoot(cur[1]), panic |-> s.panic]
            ELSE [seq |-> leafSeq(<<>>), panic |-> TRUE]
    IN  Bind2(done, sc, sc.bufs[level + 1])

RECURSIVE appendAll(_, _)
appendAll(sc, data) ==
    LET rest(s, d) ==
            IF Len(d) = 0 THEN s
            ELSE appendAll(chunkerAppend(s, 0, Head(d)), Tail(d))
    IN  Bind2(rest, sc, data)

\* ------------------------------------------------------------------ NewSet
\* NewSet(v...): buildSetData, one Append per value, Done. panic is TRUE
\* when a chunk function refused its input.
NewSet(v) ==
    LET data == buildSetData(v)
        r == chunkerDone(appendAll(newEmptySetSequenceChunker, data), 0)
    IN  [set |-> newSet(r.seq), panic |-> r.panic]

\* ------------------------------------------------------------------ cursor
\* A cursor is the sequence it ended in and a 0-based index into it.
cursorValid(cur) == cur.idx >= 0 /\ cur.idx < seqLen(cur.seq)
cursorCurrent(cur) == cur.seq.items[cur.idx + 1]

\* The smallest 0-based index whose key is not Less than |key|, or seqLen.
search(seq, key) ==
    LET hits == {i \in 1..seqLen(seq) :
                    ~Less(itemKey(seq.level, seq.items[i]), key)}
    IN  IF hits = {} THEN seqLen(seq)
        ELSE (CHOOSE i \in hits : \A j \in hits : i <= j) - 1

\* newCursorAt(seq, emptyKey, ...): the first position of every level.
RECURSIVE newCursorAtStart(_)
newCursorAtStart(seq) ==
    IF isLeaf(seq) \/ seqLen(seq) = 0 THEN [seq |-> seq, idx |-> 0]
    ELSE newCursorAtStart(seq.items[1].child)

\* newCursorAtValue(seq, v, false, ...): seek at every level; when no item
\* of a level reaches v the cursor stays at that level's end (not valid).
RECURSIVE newCursorAtValue(_, _)
newCursorAtValue(seq, v) ==
    LET idx == search(seq, v)
    IN  IF idx = seqLen(seq) \/ isLeaf(seq) THEN [seq |-> seq, idx |-> idx]
        ELSE newCursorAtValue(seq.items[idx + 1].child, v)

\* The 1-based child of a meta sequence that holds flattened index idx (the
\* last child when idx is past the end).
childAtIndex(seq, idx) ==
    LET hits == {i \in 1..seqLen(seq) :
                    sumCounts(SubSeq(seq.items, 1, i)) > idx}
    IN  IF hits = {} THEN seqLen(seq)
        ELSE CHOOSE i \in hits : \A j \in hits : i <= j

\* newCursorAtIndex(seq, idx, ...): descend by the children's counts.
RECURSIVE newCursorAtIndex(_, _)
newCursorAtIndex(seq, idx) ==
    IF isLeaf(seq) \/ seqLen(seq) = 0 THEN [seq |-> seq, idx |-> idx]
    ELSE LET c == childAtIndex(seq, idx)
         IN  newCursorAtIndex(seq.items[c].child,
                              idx - sumCounts(SubSeq(seq.items, 1, c - 1)))

\* cursor.iter from the first position: every leaf item, left to right.
RECURSIVE leafValues(_)
RECURSIVE leafValuesOf(_)
leafValues(seq) ==
    IF isLeaf(seq) THEN seq.items ELSE leafValuesOf(seq.items)
leafValuesOf(tuples) ==
    IF Len(tuples) = 0 THEN <<>>
    ELSE leafValues(Head(tuples).child) \o leafValuesOf(Tail(tuples))

\* ---------------------------------------------------------- Set operations
\* The result of a call: a value, or a panic.
Returned(v) == [panic |-> "none", val |-> v]
OutOfBounds == [panic |-> "OutOfBounds", val |-> Nil]
RuntimePanic == [panic |-> "runtime", val |-> Nil]

\* Set.Len
SetLen(s) == numLeaves(s.seq)

\* Set.Empty
Empty(s) == SetLen(s) = 0

\* Set.First: nil for the empty set.
First(s) ==
    LET cur == newCursorAtStart(s.seq)
    IN  IF ~cursorValid(cur) THEN Nil ELSE cursorCurrent(cur)

\* Set.At with the bounds check off by one (idx > Len instead of >=).
AtOffByOne(s, idx) ==
    IF idx > SetLen(s) THEN OutOfBounds
    ELSE LET cur == newCursorAtIndex(s.seq, idx)
         IN  IF cursorValid(cur) THEN Returned(cursorCurrent(cur))
             ELSE RuntimePanic

\* Set.At: panics with "Out of bounds" when idx >= Len; cur.current() of a
\* cursor that is not valid is a runtime panic of its own.
At(s, idx) ==
    IF idx >= SetLen(s) THEN OutOfBounds
    ELSE LET cur == newCursorAtIndex(s.seq, idx)
         IN  IF cursorValid(cur) THEN Returned(cursorCurrent(cur))
             ELSE RuntimePanic

\* Set.Has without the equality test on the item found.
HasNoEquals(s, v) == cursorValid(newCursorAtValue(s.seq, v))

\* Set.Has
Has(s, v) ==
    LET cur == newCursorAtValue(s.seq, v)
    IN  cursorValid(cur) /\ Equals(cursorCurrent(cur), v)

\* Set.IterAll: the values handed to the callback, in order.
IterAll(s) == leafValues(s.seq)

\* Set.Hash, run to completion by a single caller: the value returned and
\* the set with its cache cell filled.
Hash(s) == IF IsEmpty(s.h) THEN getHash(s) ELSE s.h
Hashed(s) == [s EXCEPT !.h = Hash(s)]

\* Set.Equals: the two hashes are equal.
SetEquals(s, other) == Hash(s) = Hash(other)

\* ------------------------------------------------------------------- state
VARIABLES
    \* A caller of NewSet and of the queries.
    spc,        \* "idle" | "start" | "built" | "panicked"
    args,       \* the argument list of NewSet
    set,        \* the Set NewSet returned
    ret,        \* the last query: [op, arg, res, flag, vals]
    \* A caller of Diff / DiffHybrid / DiffLeftRight.
    dpc,        \* "idle" | "start" | "running" | "done"
    alg,        \* "TopDown" | "Best" | "LeftRight"
    dlast,      \* the Set |last|
    dcur,       \* the receiver Set |s|
    todo,       \* the changes the running algorithm has still to send
    changes,    \* the contents of the changes channel
    received,   \* the changes the caller's reader has taken, in order
    closed,     \* closeChan is closed
    dstat,      \* [called, polled, observed]: the algorithm was called,
                \* closeChan was polled, its closing was observed
    \* NewStreamingSet: the producer, the builder goroutine, the receiver.
    bpc,        \* "idle" | "loop" | "panicking" | "dying" | "crashed"
                \* | "sent" | "done"
    feed,       \* what the producer sends, in order
    fed,        \* how many values the producer has sent
    vals,       \* the contents of the input channel
    valsClosed, \* the input channel is closed
    ch,         \* the builder's sequence chunker
    lastV,      \* the builder's lastV
    outChan,    \* the contents of the output channel (capacity 1)
    outClosed,  \* the output channel is closed
    got,        \* the Sets the receiver has taken
    gotClosed,  \* the receiver has seen the output channel closed
    \* Concurrent callers of Hash() on one Set.
    hseq,       \* the Set's root sequence
    cell,       \* the Set's hash cell *s.h, shared by all copies
    tpc,        \* per caller: where it is in Hash()
    treg,       \* per caller: the words it has read
    tret        \* per caller: the hash its last call returned

setVars == <<spc, args, set, ret>>
diffVars == <<dpc, alg, dlast, dcur, todo, changes, received, closed, dstat>>
streamVars == <<bpc, feed, fed, vals, valsClosed, ch, lastV, outChan,
                outClosed, got, gotClosed>>
hashVars == <<hseq, cell, tpc, treg, tret>>
vars == <<setVars, diffVars, streamVars, hashVars>>

NoSet == newSet(leafSeq(<<>>))
NoRet == [op |-> "none", arg |-> Nil, res |-> Returned(Nil), flag |-> FALSE,
          vals |-> <<>>]

NoStat == [called |-> FALSE, polled |-> FALSE, observed |-> FALSE]

\* ------------------------------------------------- NewSet and the queries
\* The caller holds any argument list; the other parts of the program are
\* left out (idle).
SetInit ==
    /\ spc = "start"
    /\ args \in SeqsUpTo(Values, MaxLen)
    /\ set = NoSet
    /\ ret = NoRet
    /\ dpc = "idle" /\ alg = "none" /\ dlast = NoSet /\ dcur = NoSet
    /\ todo = <<>> /\ changes = <<>> /\ received = <<>> /\ closed = FALSE
    /\ dstat = NoStat
    /\ bpc = "idle" /\ feed = <<>> /\ fed = 0 /\ vals = <<>>
    /\ valsClosed = FALSE /\ ch = newEmptySetSequenceChunker /\ lastV = Nil
    /\ outChan = <<>> /\ outClosed = FALSE /\ got = <<>> /\ gotClosed = FALSE
    /\ hseq = leafSeq(<<>>) /\ cell = EmptyHash /\ tpc = <<>> /\ treg = <<>>
    /\ tret = <<>>

CallNewSet ==
    /\ spc = "start"
    /\ LET r == NewSet(args)
       IN  /\ set' = r.set
           /\ spc' = IF r.panic THEN "panicked" ELSE "built"
    /\ UNCHANGED <<args, ret>>
    /\ UNCHANGED <<diffVars, streamVars, hashVars>>

CallLen ==
    /\ spc = "built"
    /\ ret' = [NoRet EXCEPT !.op = "Len", !.res = Returned(SetLen(set))]
    /\ UNCHANGED <<spc, args, set>>
    /\ UNCHANGED <<diffVars, streamVars, hashVars>>

CallEmpty ==
    /\ spc = "built"
    /\ ret' = [NoRet EXCEPT !.op = "Empty", !.flag = Empty(set)]
    /\ UNCHANGED <<spc, args, set>>
    /\ UNCHANGED <<diffVars, streamVars, hashVars>>

CallFirst ==
    /\ spc = "built"
    /\ ret' = [NoRet EXCEPT !.op = "First", !.res = Returned(First(set))]
    /\ UNCHANGED <<spc, args, set>>
    /\ UNCHANGED <<diffVars, streamVars, hashVars>>

CallAt ==
    /\ spc = "built"
    /\ \E idx \in 0..(SetLen(set) + MaxIdxOver) :
          ret' = [NoRet EXCEPT !.op = "At", !.arg = idx, !.res = At(set, idx)]
    /\ UNCHANGED <<spc, args, set>>
    /\ UNCHANGED <<diffVars, streamVars, hashVars>>

CallHas ==
    /\ spc = "built"
    /\ \E v \in Values :
          ret' = [NoRet EXCEPT !.op = "Has", !.arg = v, !.flag = Has(set, v)]
    /\ UNCHANGED <<spc, args, set>>
    /\ UNCHANGED <<diffVars, streamVars, hashVars>>

CallIterAll ==
    /\ spc = "built"
    /\ ret' = [NoRet EXCEPT !.op = "IterAll", !.vals = IterAll(set)]
    /\ UNCHANGED <<spc, args, set>>
    /\ UNCHANGED <<diffVars, streamVars, hashVars>>

SetNext ==
    \/ CallNewSet
    \/ CallLen
    \/ CallEmpty
    \/ CallFirst
    \/ CallAt
    \/ CallHas
    \/ CallIterAll

SpecSet == SetInit /\ [][SetNext]_vars

\* What the claims speak of: the distinct values of a list, strict order.
Range(seq) == {seq[i] : i \in 1..Len(seq)}
StrictlyAscending(seq) == \A i \in 1..(Len(seq) - 1) : seq[i] < seq[i + 1]
\* The element of the finite set S of integers with exactly n smaller ones.
Nth(S, n) == CHOOSE e \in S : Cardinality({x \in S : x < e}) = n

\* C1: NewSet(V) holds exactly the distinct values of V: buildSetData(V) is
\* strictly ascending and has the elements of V and no others; Len() is the
\* number of distinct values of V, iteration yields them in ascending order,
\* and for the empty V Len() is 0 and Empty() is true.
C1_NewSetDistinctSorted ==
    spc \in {"built", "panicked"} =>
        /\ spc = "built"
        /\ StrictlyAscending(buildSetData(args))
        /\ Range(buildSetData(args)) = Range(args)
        /\ ret.op = "Len" => ret.res = Returned(Cardinality(Range(args)))
        /\ ret.op = "Empty" => ret.flag = (Len(args) = 0)
        /\ ret.op = "IterAll" =>
              /\ StrictlyAscending(ret.vals)
              /\ Range(ret.vals) = Range(args)
              /\ Len(ret.vals) = Cardinality(Range(args))

\* C1's case: a list out of order and with a duplicate has been built and
\* iterated.
C1_Witness ==
    /\ spc = "built"
    /\ ret.op = "IterAll"
    /\ Len(ret.vals) >= 2
    /\ Cardinality(Range(args)) < Len(args)
    /\ ~StrictlyAscending(args)

\* C2: NewSet(V).Has(v) is true exactly when v equals some element of V.
C2_HasIffMember ==
    (spc = "built" /\ ret.op = "Has") => ret.flag = (ret.arg \in Range(args))

\* C2's case: Has of an absent value larger than every element of a set
\* that spans several chunks, and of one smaller than every element.
C2_Witness ==
    /\ spc = "built"
    /\ ret.op = "Has"
    /\ ~ret.flag
    /\ ~isLeaf(set.seq)
    /\ \A x \in Range(args) : x < ret.arg

\* C7: At(idx) panics with the out-of-bounds error exactly when idx >= Len();
\* otherwise it returns the element at position idx of the ascending order,
\* so At(0) is First() and At(Len()-1) is the maximum.
C7_AtBounds ==
    (spc = "built" /\ ret.op = "At") =>
        /\ (ret.res.panic = "OutOfBounds") = (ret.arg >= Cardinality(Range(args)))
        /\ ret.arg < Cardinality(Range(args)) =>
              /\ ret.res = Returned(Nth(Range(args), ret.arg))
              /\ ret.arg = 0 => ret.res.val = First(set)
              /\ ret.arg = SetLen(set) - 1 =>
                    \A x \in Range(args) : x <= ret.res.val

\* C7's case: At of the last index of a set that spans several chunks.
C7_Witness ==
    /\ spc = "built"
    /\ ret.op = "At"
    /\ ~isLeaf(set.seq)
    /\ ret.arg = SetLen(set) - 1
    /\ ret.res.panic = "none"

\* --------------------------------------------------------- NewStreamingSet
\* make(chan Set, 1): the capacity of the output channel.
OutCapUnbuffered == 1 - 1
OutCap == 1

\* The loop body with ch.Append(v) moved inside the |if lastV != nil| block.
streamStepAppendInsideIf(sc, last, v) ==
    IF v = Nil THEN [panic |-> TRUE, ch |-> sc, lastV |-> last]
    ELSE IF last # Nil
    THEN [panic |-> ~(last = Nil \/ Less(last, v)),
          ch |-> chunkerAppend(sc, 0, v), lastV |-> last]
    ELSE [panic |-> FALSE, ch |-> sc, lastV |-> last]

\* One turn of |for v := range vals|: panic on a nil value; compare with
\* lastV when lastV is not nil; ch.Append(v), which panics when a chunk
\* function refuses a chunk it closes. Nothing assigns lastV.
streamStep(sc, last, v) ==
    IF v = Nil THEN [panic |-> TRUE, ch |-> sc, lastV |-> last]
    ELSE IF last # Nil /\ ~(last = Nil \/ Less(last, v))
    THEN [panic |-> TRUE, ch |-> sc, lastV |-> last]
    ELSE LET sc1 == chunkerAppend(sc, 0, v)
         IN  [panic |-> sc1.panic, ch |-> sc1, lastV |-> last]

\* The producer (the caller) sends its next value; it blocks while the
\* input channel is full.
ProducerSend ==
    /\ bpc \in {"loop", "panicking", "dying", "sent", "done"}
    /\ ~valsClosed
    /\ fed < Len(feed)
    /\ Len(vals) < ValsCap
    /\ vals' = Append(vals, feed[fed + 1])
    /\ fed' = fed + 1
    /\ UNCHANGED <<bpc, feed, valsClosed, ch, lastV, outChan, outClosed, got,
                   gotClosed>>
    /\ UNCHANGED <<setVars, diffVars, hashVars>>

\* The producer closes the input channel after its last value.
ProducerClose ==
    /\ bpc \in {"loop", "panicking", "dying", "sent", "done"}
    /\ ~valsClosed
    /\ fed = Len(feed)
    /\ valsClosed' = TRUE
    /\ UNCHANGED <<bpc, feed, fed, vals, ch, lastV, outChan, outClosed, got,
                   gotClosed>>
    /\ UNCHANGED <<setVars, diffVars, hashVars>>

\* The builder takes the next value off the input channel.
BuilderRecv ==
    /\ bpc = "loop"
    /\ Len(vals) > 0
    /\ \E r \in {streamStep(ch, lastV, Head(vals))} :
          /\ bpc' = IF r.panic THEN "panicking" ELSE "loop"
          /\ ch' = r.ch
          /\ lastV' = r.lastV
    /\ vals' = Tail(vals)
    /\ UNCHANGED <<feed, fed, valsClosed, outChan, outClosed, got, gotClosed>>
    /\ UNCHANGED <<setVars, diffVars, hashVars>>

\* The input channel is closed and drained: ch.Done() and the send of the
\* finished Set, which waits while the output channel is full.
BuilderFinish ==
    /\ bpc = "loop"
    /\ Len(vals) = 0
    /\ valsClosed
    /\ \E r \in {chunkerDone(ch, 0)} :
          \/ /\ r.panic
             /\ bpc' = "panicking"
             /\ UNCHANGED outChan
          \/ /\ ~r.panic
             /\ Len(outChan) < OutCap
             /\ outChan' = Append(outChan, newSet(r.seq))
             /\ bpc' = "sent"
    /\ UNCHANGED <<feed, fed, vals, valsClosed, ch, lastV, outClosed, got,
                   gotClosed>>
    /\ UNCHANGED <<setVars, diffVars, hashVars>>

\* defer close(outChan), on the normal return.
BuilderClose ==
    /\ bpc = "sent"
    /\ outClosed' = TRUE
    /\ bpc' = "done"
    /\ UNCHANGED <<feed, fed, vals, valsClosed, ch, lastV, outChan, got,
                   gotClosed>>
    /\ UNCHANGED <<setVars, diffVars, hashVars>>

\* defer close(outChan), run while the goroutine panics.
BuilderUnwind ==
    /\ bpc = "panicking"
    /\ outClosed' = TRUE
    /\ bpc' = "dying"
    /\ UNCHANGED <<feed, fed, vals, valsClosed, ch, lastV, outChan, got,
                   gotClosed>>
    /\ UNCHANGED <<setVars, diffVars, hashVars>>

\* Nothing recovers the panic: the process exits.
BuilderCrash ==
    /\ bpc = "dying"
    /\ bpc' = "crashed"
    /\ UNCHANGED <<feed, fed, vals, valsClosed, ch, lastV, outChan,
                   outClosed, got, gotClosed>>
    /\ UNCHANGED <<setVars, diffVars, hashVars>>

\* The receiver takes a Set off the output channel.
ReceiverRecv ==
    /\ bpc \in {"loop", "panicking", "dying", "sent", "done"}
    /\ Len(outChan) > 0
    /\ got' = Append(got, Head(outChan))
    /\ outChan' = Tail(outChan)
    /\ UNCHANGED <<bpc, feed, fed, vals, valsClosed, ch, lastV, outClosed,
                   gotClosed>>
    /\ UNCHANGED <<setVars, diffVars, hashVars>>

\* The receiver finds the output channel closed and empty.
ReceiverSeeClosed ==
    /\ bpc \in {"loop", "panicking", "dying", "sent", "done"}
    /\ Len(outChan) = 0
    /\ outClosed
    /\ ~gotClosed
    /\ gotClosed' = TRUE
    /\ UNCHANGED <<bpc, feed, fed, vals, valsClosed, ch, lastV, outChan,
                   outClosed, got>>
    /\ UNCHANGED <<setVars, diffVars, hashVars>>

\* NewStreamingSet has returned: the goroutine is in its loop with an empty
\* chunker, lastV is nil, the output channel is empty; the producer holds
\* any sequence of values, nil included.
StreamInit ==
    /\ bpc = "loop"
    /\ feed \in SeqsUpTo(Values \cup {Nil}, MaxLen)
    /\ fed = 0 /\ vals = <<>> /\ valsClosed = FALSE
    /\ ch = newEmptySetSequenceChunker /\ lastV = Nil
    /\ outChan = <<>> /\ outClosed = FALSE /\ got = <<>> /\ gotClosed = FALSE
    /\ spc = "idle" /\ args = <<>> /\ set = NoSet /\ ret = NoRet
    /\ dpc = "idle" /\ alg = "none" /\ dlast = NoSet /\ dcur = NoSet
    /\ todo = <<>> /\ changes = <<>> /\ received = <<>> /\ closed = FALSE
    /\ dstat = NoStat
    /\ hseq = leafSeq(<<>>) /\ cell = EmptyHash /\ tpc = <<>> /\ treg = <<>>
    /\ tret = <<>>

StreamNext ==
    \/ ProducerSend
    \/ ProducerClose
    \/ BuilderRecv
    \/ BuilderFinish
    \/ BuilderClose
    \/ BuilderUnwind
    \/ BuilderCrash
    \/ ReceiverRecv
    \/ ReceiverSeeClosed

SpecStream == StreamInit /\ [][StreamNext]_vars

\* The builder goroutine is scheduled as long as it can take a step; nothing
\* is assumed of the producer or of the receiver.
SpecStreamFair ==
    /\ StreamInit
    /\ [][StreamNext]_vars
    /\ WF_vars(BuilderRecv)
    /\ WF_vars(BuilderFinish)
    /\ WF_vars(BuilderClose)

NonNil(seq) == \A i \in 1..Len(seq) : seq[i] # Nil
\* What the producer has sent so far.
Sent == SubSeq(feed, 1, fed)
\* The Sets that were sent on the output channel.
Delivered == got \o outChan

\* C5: when the values sent are not nil and one of them is not strictly
\* greater than the one sent before it, the builder panics and no Set is
\* ever delivered on the output channel.
C5_OutOfOrderPanics ==
    (NonNil(Sent) /\ ~StrictlyAscending(Sent)) =>
        /\ Len(Delivered) = 0
        /\ bpc \notin {"sent", "done"}

\* C6: for a strictly ascending, nil-free W sent and followed by the close,
\* the builder does not panic and the Set it delivers Equals NewSet(W).
C6_StreamEqualsNewSet ==
    (NonNil(feed) /\ StrictlyAscending(feed)) =>
        /\ bpc \in {"loop", "sent", "done"}
        /\ bpc \in {"sent", "done"} => Len(Delivered) = 1
        /\ \A i \in 1..Len(Delivered) :
              SetEquals(Delivered[i], NewSet(feed).set)

\* C6's case: a stream of MaxLen ascending values that spans several chunks
\* has been built and received.
C6_Witness ==
    /\ NonNil(feed) /\ StrictlyAscending(feed)
    /\ Len(feed) = MaxLen
    /\ Len(got) = 1
    /\ ~isLeaf(got[1].seq)

\* C9, safety: with valid input nothing is on the output channel before the
\* input channel is closed, at most one Set is ever sent, the channel is
\* closed only after the Set was sent, and a receiver that sees the channel
\* closed has taken exactly one Set.
C9_Safe ==
    (NonNil(feed) /\ StrictlyAscending(feed)) =>
        /\ ~valsClosed => (Len(Delivered) = 0 /\ ~outClosed)
        /\ Len(Delivered) <= 1
        /\ outClosed => (Len(Delivered) = 1 /\ bpc = "done")
        /\ gotClosed => Len(got) = 1

\* C9: C9_Safe always holds, and once the input channel is closed the
\* builder eventually has sent its one Set, closed the output channel and
\* terminated, whether or not a receiver is waiting.
C9_OneSetThenClosed ==
    /\ []C9_Safe
    /\ (valsClosed /\ NonNil(feed) /\ StrictlyAscending(feed))
          ~> (bpc = "done" /\ outClosed /\ Len(Delivered) = 1)

\* C9's case: the builder has terminated with its Set still in the output
\* channel: no receiver was waiting.
C9_Witness ==
    /\ NonNil(feed) /\ StrictlyAscending(feed) /\ Len(feed) >= 2
    /\ bpc = "done"
    /\ Len(outChan) = 1
    /\ Len(got) = 0

\* -------------------------------------------------------------------- diff
\* ValueChanged{ChangeType, V}
Added(v) == [kind |-> "Added", value |-> v]
Removed(v) == [kind |-> "Removed", value |-> v]

\* The sorted merge of two ascending runs of values: a value only in |last|
\* is Removed, a value only in |current| is Added.
RECURSIVE mergeDiff(_, _)
mergeDiff(lastVals, curVals) ==
    IF Len(lastVals) = 0 /\ Len(curVals) = 0 THEN <<>>
    ELSE IF Len(lastVals) = 0
    THEN <<Added(Head(curVals))>> \o mergeDiff(lastVals, Tail(curVals))
    ELSE IF Len(curVals) = 0
    THEN <<Removed(Head(lastVals))>> \o mergeDiff(Tail(lastVals), curVals)
    ELSE IF Less(Head(curVals), Head(lastVals))
    THEN <<Added(Head(curVals))>> \o mergeDiff(lastVals, Tail(curVals))
    ELSE IF Less(Head(lastVals), Head(curVals))
    THEN <<Removed(Head(lastVals))>> \o mergeDiff(Tail(lastVals), curVals)
    ELSE mergeDiff(Tail(lastVals), Tail(curVals))

\* Left to right: both trees in leaf order, in lock-step.
orderedSequenceDiffLeftRight(last, current) ==
    mergeDiff(leafValues(last), leafValues(current))

\* A run of sibling sequences: its level, its items, its leaf values.
runLevel(seqs) == IF Len(seqs) = 0 THEN 0 ELSE seqs[1].level
RECURSIVE runItems(_)
runItems(seqs) ==
    IF Len(seqs) = 0 THEN <<>> ELSE Head(seqs).items \o runItems(Tail(seqs))
RECURSIVE childSeqs(_)
childSeqs(tuples) ==
    IF Len(tuples) = 0 THEN <<>>
    ELSE <<Head(tuples).child>> \o childSeqs(Tail(tuples))
\* The children whose content hash no child of the other side has.
RECURSIVE uncommon(_, _)
uncommon(tuples, others) ==
    IF Len(tuples) = 0 THEN <<>>
    ELSE (IF \E j \in 1..Len(others) : others[j].ref = Head(tuples).ref
          THEN <<>> ELSE <<Head(tuples)>>)
         \o uncommon(Tail(tuples), others)

\* Top down: level by level; the taller side is descended until the levels
\* agree, children with equal hashes are skipped without descending, and
\* the leaves that remain are merged.
RECURSIVE diffRuns(_, _)
diffRuns(lastSeqs, curSeqs) ==
    LET step(l, c) ==
            IF runLevel(l) = 0 /\ runLevel(c) = 0
            THEN mergeDiff(runItems(l), runItems(c))
            ELSE IF runLevel(l) > runLevel(c)
            THEN diffRuns(childSeqs(runItems(l)), c)
            ELSE IF runLevel(c) > runLevel(l)
            THEN diffRuns(l, childSeqs(runItems(c)))
            ELSE diffRuns(childSeqs(uncommon(runItems(l), runItems(c))),
                          childSeqs(uncommon(runItems(c), runItems(l))))
    IN  Bind2(step, lastSeqs, curSeqs)

orderedSequenceDiffTopDown(last, current) == diffRuns(<<last>>, <<current>>)

\* Hybrid: one round of top-down hash-skip over the two roots' children,
\* then left to right over the regions that differ.
RECURSIVE leafValuesOfRun(_)
leafValuesOfRun(seqs) ==
    IF Len(seqs) = 0 THEN <<>>
    ELSE leafValues(Head(seqs)) \o leafValuesOfRun(Tail(seqs))

orderedSequenceDiffBest(last, current) ==
    IF isLeaf(last) \/ isLeaf(current) \/ last.level # current.level
    THEN orderedSequenceDiffLeftRight(last, current)
    ELSE mergeDiff(
             leafValuesOfRun(childSeqs(uncommon(last.items, current.items))),
             leafValuesOfRun(childSeqs(uncommon(current.items, last.items))))

\* Set.Diff with |last| and |s| handed over in the wrong order.
DiffSwapped(s, last) ==
    IF SetEquals(s, last) THEN [called |-> FALSE, plan |-> <<>>]
    ELSE [called |-> TRUE, plan |-> orderedSequenceDiffTopDown(s.seq, last.seq)]

\* Set.Diff without the check of the two hashes.
DiffNoShortCircuit(s, last) ==
    [called |-> TRUE, plan |-> orderedSequenceDiffTopDown(last.seq, s.seq)]

\* Set.DiffLeftRight with |last| and |s| handed over in the wrong order.
DiffLeftRightSwapped(s, last) ==
    IF SetEquals(s, last) THEN [called |-> FALSE, plan |-> <<>>]
    ELSE [called |-> TRUE,
          plan |-> orderedSequenceDiffLeftRight(s.seq, last.seq)]

\* Set.Diff: return at once when s.Equals(last), else the top-down
\* algorithm from last.seq to s.seq. plan is what the algorithm sends when
\* nothing stops it, in its order.
Diff(s, last) ==
    IF SetEquals(s, last) THEN [called |-> FALSE, plan |-> <<>>]
    ELSE [called |-> TRUE, plan |-> orderedSequenceDiffTopDown(last.seq, s.seq)]

\* Set.DiffHybrid
DiffHybrid(s, last) ==
    IF SetEquals(s, last) THEN [called |-> FALSE, plan |-> <<>>]
    ELSE [called |-> TRUE, plan |-> orderedSequenceDiffBest(last.seq, s.seq)]

\* Set.DiffLeftRight
DiffLeftRight(s, last) ==
    IF SetEquals(s, last) THEN [called |-> FALSE, plan |-> <<>>]
    ELSE [called |-> TRUE,
          plan |-> orderedSequenceDiffLeftRight(last.seq, s.seq)]

DiffValues == 0..DiffMaxVal
\* The ascending list of the elements of a finite set of values.
AscSeq(S) ==
    CHOOSE q \in [1..Cardinality(S) -> S] : StrictlyAscending(q)

\* The caller enters one of the three diffs. s.Equals(last) fills both
\* hash cells; with equal hashes the call returns at once.
CallDiff ==
    /\ dpc = "start"
    /\ \E r \in {IF alg = "TopDown" THEN Diff(dcur, dlast)
                 ELSE IF alg = "Best" THEN DiffHybrid(dcur, dlast)
                 ELSE DiffLeftRight(dcur, dlast)} :
          /\ dpc' = IF r.called THEN "running" ELSE "done"
          /\ todo' = r.plan
          /\ dstat' = [dstat EXCEPT !.called = r.called]
    /\ dlast' = Hashed(dlast)
    /\ dcur' = Hashed(dcur)
    /\ UNCHANGED <<alg, changes, received, closed>>
    /\ UNCHANGED <<setVars, streamVars, hashVars>>

\* sendChange, the send wins: select { case changes <- c: ...
DiffSend ==
    /\ dpc = "running"
    /\ Len(todo) > 0
    /\ Len(changes) < ChangesCap
    /\ changes' = Append(changes, Head(todo))
    /\ todo' = Tail(todo)
    /\ dstat' = [dstat EXCEPT !.polled = TRUE]
    /\ UNCHANGED <<dpc, alg, dlast, dcur, received, closed>>
    /\ UNCHANGED <<setVars, streamVars, hashVars>>

\* sendChange, the cancellation wins: ... case <-closeChan: stop.
DiffObserve ==
    /\ dpc = "running"
    /\ Len(todo) > 0
    /\ closed
    /\ dstat' = [dstat EXCEPT !.polled = TRUE, !.observed = TRUE]
    /\ dpc' = "done"
    /\ UNCHANGED <<alg, dlast, dcur, todo, changes, received, closed>>
    /\ UNCHANGED <<setVars, streamVars, hashVars>>

\* The algorithm has nothing left to send: the diff returns.
DiffReturn ==
    /\ dpc = "running"
    /\ Len(todo) = 0
    /\ dpc' = "done"
    /\ UNCHANGED <<alg, dlast, dcur, todo, changes, received, closed, dstat>>
    /\ UNCHANGED <<setVars, streamVars, hashVars>>

\* The caller's reader takes a change off the channel.
ReaderRecv ==
    /\ dpc \in {"running", "done"}
    /\ Len(changes) > 0
    /\ received' = Append(received, Head(changes))
    /\ changes' = Tail(changes)
    /\ UNCHANGED <<dpc, alg, dlast, dcur, todo, closed, dstat>>
    /\ UNCHANGED <<setVars, streamVars, hashVars>>

\* The caller closes closeChan.
Cancel ==
    /\ dpc \in {"start", "running", "done"}
    /\ ~closed
    /\ closed' = TRUE
    /\ UNCHANGED <<dpc, alg, dlast, dcur, todo, changes, received, dstat>>
    /\ UNCHANGED <<setVars, streamVars, hashVars>>

\* Two Sets built by NewSet from any two sets of values, one of the three
\* strategies, an empty changes channel and an open closeChan.
DiffInit ==
    /\ dpc = "start"
    /\ alg \in {"TopDown", "Best", "LeftRight"}
    /\ dlast \in {NewSet(AscSeq(S)).set : S \in SUBSET DiffValues}
    /\ dcur \in {NewSet(AscSeq(S)).set : S \in SUBSET DiffValues}
    /\ todo = <<>> /\ changes = <<>> /\ received = <<>> /\ closed = FALSE
    /\ dstat = NoStat
    /\ spc = "idle" /\ args = <<>> /\ set = NoSet /\ ret = NoRet
    /\ bpc = "idle" /\ feed = <<>> /\ fed = 0 /\ vals = <<>>
    /\ valsClosed = FALSE /\ ch = newEmptySetSequenceChunker /\ lastV = Nil
    /\ outChan = <<>> /\ outClosed = FALSE /\ got = <<>> /\ gotClosed = FALSE
    /\ hseq = leafSeq(<<>>) /\ cell = EmptyHash /\ tpc = <<>> /\ treg = <<>>
    /\ tret = <<>>

DiffNext ==
    \/ CallDiff
    \/ DiffSend
    \/ DiffObserve
    \/ DiffReturn
    \/ ReaderRecv
    \/ Cancel

SpecDiff == DiffInit /\ [][DiffNext]_vars

\* The diff runs in its caller's goroutine, which is scheduled as long as
\* it can take a step; nothing is assumed of the reader.
SpecDiffFair ==
    /\ DiffInit
    /\ [][DiffNext]_vars
    /\ WF_vars(DiffSend \/ DiffObserve \/ DiffReturn)

\* The changes sent so far, in order, and what a complete diff must report.
Emitted == received \o changes
LastVals == Range(IterAll(dlast))
CurVals == Range(IterAll(dcur))
Expected ==
    {Removed(v) : v \in LastVals \ CurVals}
    \cup {Added(v) : v \in CurVals \ LastVals}

\* C3: a diff of any strategy that ran to completion without observing a
\* cancellation has sent exactly one Removed for every value of last that is
\* not in s, one Added for every value of s that is not in last, and
\* nothing else (so the three strategies report the same set of changes).
C3_DiffIsSymmetricDifference ==
    (dpc = "done" /\ ~dstat.observed) =>
        /\ Range(Emitted) = Expected
        /\ Len(Emitted) = Cardinality(Expected)

\* C3's case: a completed diff of two different sets, each spanning several
\* chunks and sharing a chunk, that reported an Added and a Removed.
C3_Witness ==
    /\ dpc = "done" /\ ~dstat.observed
    /\ ~isLeaf(dlast.seq) /\ ~isLeaf(dcur.seq)
    /\ \E i \in 1..Len(dlast.seq.items) : \E j \in 1..Len(dcur.seq.items) :
          dlast.seq.items[i].ref = dcur.seq.items[j].ref
    /\ \E i, j \in 1..Len(Emitted) :
          Emitted[i].kind = "Added" /\ Emitted[j].kind = "Removed"

\* C4: with equal hashes each of the three diffs returns at once: nothing
\* is sent, the algorithm is not called and closeChan is never polled.
C4_EqualHashesNoOp ==
    (dpc # "start" /\ Hash(dlast) = Hash(dcur)) =>
        /\ dpc = "done"
        /\ ~dstat.called
        /\ ~dstat.polled
        /\ Len(todo) = 0
        /\ Len(Emitted) = 0

\* C4's case: Diff(A, A) of a set of several chunks has returned, with
\* closeChan closed.
C4_Witness ==
    /\ dpc = "done"
    /\ Hash(dlast) = Hash(dcur)
    /\ ~isLeaf(dcur.seq)
    /\ closed

\* C8: once the diff has observed the cancellation nothing more is sent;
\* what was sent is part of the true difference; and after closeChan is
\* closed a running diff returns, reader or no reader.
C8_CancelStops ==
    /\ [][dstat.observed => Emitted' = Emitted]_vars
    /\ [](\A i \in 1..Len(Emitted) : Emitted[i] \in Expected)
    /\ [](dstat.observed => dpc = "done")
    /\ (closed /\ dpc = "running") ~> (dpc = "done")

\* C8's case: a diff stopped by the cancellation with changes still unsent
\* and one sent change that nobody has read.
C8_Witness ==
    /\ dstat.observed
    /\ dpc = "done"
    /\ Len(todo) > 0
    /\ Len(changes) > 0
    /\ Len(received) = 0

\* ------------------------------------------------------- concurrent Hash()
\* Hash() takes no lock, and hash.Hash is wider than a machine word: the
\* test s.h.IsEmpty(), the store *s.h = getHash(s) and the load of the
\* returned *s.h each touch the cell one half at a time, and the halves of
\* concurrent callers interleave (a data race).
Callers == 1..NCallers
TheSet == [seq |-> hseq, h |-> cell]

HashCall(t) ==
    /\ tpc[t] \in {"idle", "returned"}
    /\ tpc' = [tpc EXCEPT ![t] = "testLo"]
    /\ UNCHANGED <<hseq, cell, treg, tret>>
    /\ UNCHANGED <<setVars, diffVars, streamVars>>

\* s.h.IsEmpty(), first half.
HashTestLo(t) ==
    /\ tpc[t] = "testLo"
    /\ treg' = [treg EXCEPT ![t] = [EmptyHash EXCEPT !.lo = cell.lo]]
    /\ tpc' = [tpc EXCEPT ![t] = "testHi"]
    /\ UNCHANGED <<hseq, cell, tret>>
    /\ UNCHANGED <<setVars, diffVars, streamVars>>

\* s.h.IsEmpty(), second half, and the branch.
HashTestHi(t) ==
    /\ tpc[t] = "testHi"
    /\ treg' = [treg EXCEPT ![t].hi = cell.hi]
    /\ tpc' = [tpc EXCEPT ![t] =
                  IF IsEmpty([treg[t] EXCEPT !.hi = cell.hi]) THEN "storeLo"
                  ELSE "loadLo"]
    /\ UNCHANGED <<hseq, cell, tret>>
    /\ UNCHANGED <<setVars, diffVars, streamVars>>

\* *s.h = getHash(s), first half.
HashStoreLo(t) ==
    /\ tpc[t] = "storeLo"
    /\ cell' = [cell EXCEPT !.lo = getHash(TheSet).lo]
    /\ tpc' = [tpc EXCEPT ![t] = "storeHi"]
    /\ UNCHANGED <<hseq, treg, tret>>
    /\ UNCHANGED <<setVars, diffVars, streamVars>>

\* *s.h = getHash(s), second half.
HashStoreHi(t) ==
    /\ tpc[t] = "storeHi"
    /\ cell' = [cell EXCEPT !.hi = getHash(TheSet).hi]
    /\ tpc' = [tpc EXCEPT ![t] = "loadLo"]
    /\ UNCHANGED <<hseq, treg, tret>>
    /\ UNCHANGED <<setVars, diffVars, streamVars>>

\* return *s.h, first half.
HashLoadLo(t) ==
    /\ tpc[t] = "loadLo"
    /\ treg' = [treg EXCEPT ![t] = [EmptyHash EXCEPT !.lo = cell.lo]]
    /\ tpc' = [tpc EXCEPT ![t] = "loadHi"]
    /\ UNCHANGED <<hseq, cell, tret>>
    /\ UNCHANGED <<setVars, diffVars, streamVars>>

\* return *s.h, second half: the call returns what it loaded.
HashLoadHi(t) ==
    /\ tpc[t] = "loadHi"
    /\ tret' = [tret EXCEPT ![t] = [treg[t] EXCEPT !.hi = cell.hi]]
    /\ treg' = [treg EXCEPT ![t].hi = cell.hi]
    /\ tpc' = [tpc EXCEPT ![t] = "returned"]
    /\ UNCHANGED <<hseq, cell>>
    /\ UNCHANGED <<setVars, diffVars, streamVars>>

\* A Set fresh from NewSet (its cell empty), shared by NCallers goroutines.
HashInit ==
    /\ hseq \in {NewSet(AscSeq(S)).set.seq : S \in SUBSET DiffValues}
    /\ cell = EmptyHash
    /\ tpc = [t \in Callers |-> "idle"]
    /\ treg = [t \in Callers |-> EmptyHash]
    /\ tret = [t \in Callers |-> EmptyHash]
    /\ spc = "idle" /\ args = <<>> /\ set = NoSet /\ ret = NoRet
    /\ dpc = "idle" /\ alg = "none" /\ dlast = NoSet /\ dcur = NoSet
    /\ todo = <<>> /\ changes = <<>> /\ received = <<>> /\ closed = FALSE
    /\ dstat = NoStat
    /\ bpc = "idle" /\ feed = <<>> /\ fed = 0 /\ vals = <<>>
    /\ valsClosed = FALSE /\ ch = newEmptySetSequenceChunker /\ lastV = Nil
    /\ outChan = <<>> /\ outClosed = FALSE /\ got = <<>> /\ gotClosed = FALSE

HashNext ==
    \E t \in Callers :
        \/ HashCall(t)
        \/ HashTestLo(t)
        \/ HashTestHi(t)
        \/ HashStoreLo(t)
        \/ HashStoreHi(t)
        \/ HashLoadLo(t)
        \/ HashLoadHi(t)

SpecHash == HashInit /\ [][HashNext]_vars

\* C10: the cell, whenever a caller has read it, is empty or equal to
\* getHash(s), and every call of Hash() returns getHash(s).
C10_WriteOnceCache ==
    \A t \in Callers :
        /\ tpc[t] \in {"storeLo", "loadLo", "returned"} =>
              treg[t] \in {EmptyHash, getHash(TheSet)}
        /\ tpc[t] = "returned" => tret[t] = getHash(TheSet)

=============================================================================
